---- MODULE Spec2Model ----
(***************************************************************************)
(* Park-golf score dashboard (src/App.py): the row-by-row score-card       *)
(* parser parse_score_files and the presentation script that follows it.   *)
(*                                                                         *)
(* A text is a sequence of characters, each character a one-character     *)
(* string; a non-ASCII character is written as its code point "U+XXXX".    *)
(* A cell of the raw frame is [na, s]: na for a missing value (NaN), s the *)
(* text otherwise.  A number is the exact decimal [num, den].              *)
(***************************************************************************)
EXTENDS Integers, Sequences, FiniteSets, TLC

VARIABLES
    pc,            \* position of the script
    fi,            \* index into files of the file being handled
    disk,          \* per file: what the run has found on disk so far
    current_date,  \* the date cursor of the file being read
    all_data,      \* the records appended so far
    warnings,      \* st.warning calls, by file name
    df,            \* the table after to_datetime and sort_values
    selected_player,
    selected_course,
    filtered_df,
    recent_score

vars == <<pc, fi, disk, current_date, all_data, warnings, df,
          selected_player, selected_course, filtered_df, recent_score>>

parserVars == <<fi, disk, current_date, all_data, warnings>>
viewVars == <<df, selected_player, selected_course, filtered_df, recent_score>>

\* ------------------------------------------------------------------ bounds
MaxRows == 3        \* rows read in one run of the parser (all files together)
MaxRecords == 3     \* records of a table handed to the presentation script
MaxTail == 2        \* characters following the date digits in a first cell

\* --------------------------------------------------------------- constants
MinScore == 30
MaxScore == 150
MinDateLen == 6
ShortDateLen == 6
LongDateLen == 8
DefaultIndex == 1

\* -------------------------------------------------------------------- text
Digits == {"0", "1", "2", "3", "4", "5", "6", "7", "8", "9"}
\* the whitespace of the model's alphabet
Whitespace == {" "}

DigitVal(c) ==
    CASE c = "0" -> 0 [] c = "1" -> 1 [] c = "2" -> 2 [] c = "3" -> 3
      [] c = "4" -> 4 [] c = "5" -> 5 [] c = "6" -> 6 [] c = "7" -> 7
      [] c = "8" -> 8 [] c = "9" -> 9

RECURSIVE LStrip(_)
LStrip(s) == IF s # <<>> /\ Head(s) \in Whitespace THEN LStrip(Tail(s)) ELSE s

RECURSIVE RStrip(_)
RStrip(s) ==
    IF s # <<>> /\ s[Len(s)] \in Whitespace
    THEN RStrip(SubSeq(s, 1, Len(s) - 1)) ELSE s

\* the cell taken as it is, never stripped
Strip_None(s) == s

\* str.strip()
Strip(s) == RStrip(LStrip(s))

\* str(cell): a missing value prints as 'nan'
Str(cell) == IF cell.na THEN <<"n", "a", "n">> ELSE cell.s

\* s.replace(c, '') for a one-character c
RECURSIVE Replace(_, _)
Replace(s, c) ==
    IF s = <<>> THEN <<>>
    ELSE IF Head(s) = c THEN Replace(Tail(s), c)
    ELSE <<Head(s)>> \o Replace(Tail(s), c)

\* s[a:b] with 0 <= a <= b, clipped to the text as a Python slice is
Slice(s, a, b) ==
    LET hi == IF b < Len(s) THEN b ELSE Len(s)
    IN  IF a >= hi THEN <<>> ELSE SubSeq(s, a + 1, hi)

AllDigits(s, a, b) == b <= Len(s) /\ \A i \in a..b : s[i] \in Digits

\* the character class [\.|/] of the date pattern
SepClass == {".", "|", "/"}

\* re.match(r'(\d{2,4})[\.|/]?(\d{2})[\.|/]?(\d{2})', col0): a prefix of col0
\* matches for some split the backtracking can reach
ReMatchDate(col0) ==
    \E n \in 2..4 : \E a \in 0..1 : \E b \in 0..1 :
        /\ AllDigits(col0, 1, n)
        /\ a = 1 => (n + 1 <= Len(col0) /\ col0[n + 1] \in SepClass)
        /\ AllDigits(col0, n + a + 1, n + a + 2)
        /\ b = 1 => (n + a + 3 <= Len(col0) /\ col0[n + a + 3] \in SepClass)
        /\ AllDigits(col0, n + a + b + 3, n + a + b + 4)

\* only the dots removed, the slashes left in
RawDate_DotsOnly(col0) == Replace(col0, ".")

\* raw_date = col0.replace('.', '').replace('/', '')
RawDate(col0) == Replace(Replace(col0, "."), "/")

NoneDate == <<"None">>

IsDateRow(col0) == ReMatchDate(col0) /\ Len(col0) >= MinDateLen

\* the date cursor after a date row
DateCursor(col0, cur) ==
    LET raw_date == RawDate(col0)
    IN  IF Len(raw_date) = ShortDateLen
        THEN <<"2", "0">> \o Slice(raw_date, 0, 2) \o <<"-">>
             \o Slice(raw_date, 2, 4) \o <<"-">> \o Slice(raw_date, 4, Len(raw_date))
        ELSE IF Len(raw_date) = LongDateLen
        THEN Slice(raw_date, 0, 4) \o <<"-">> \o Slice(raw_date, 4, 6)
             \o <<"-">> \o Slice(raw_date, 6, Len(raw_date))
        ELSE cur

\* ------------------------------------------------------------------ numbers
RECURSIVE DigitsVal(_)
DigitsVal(s) == IF s = <<>> THEN 0
                ELSE 10 * DigitsVal(SubSeq(s, 1, Len(s) - 1)) + DigitVal(s[Len(s)])

RECURSIVE Pow10(_)
Pow10(k) == IF k = 0 THEN 1 ELSE 10 * Pow10(k - 1)

IsDigits(s) == \A i \in 1..Len(s) : s[i] \in Digits

ValueError == [ok |-> FALSE, nan |-> FALSE, inf |-> 0, num |-> 0, den |-> 1]
NaN == [ok |-> TRUE, nan |-> TRUE, inf |-> 0, num |-> 0, den |-> 1]
Inf(sign) == [ok |-> TRUE, nan |-> FALSE, inf |-> sign, num |-> 0, den |-> 1]
Number(n, d) == [ok |-> TRUE, nan |-> FALSE, inf |-> 0, num |-> n, den |-> d]

\* float(col1) on the texts of the model's alphabet: an optional sign, then
\* decimal digits with at most one point, or 'nan', or 'inf'; anything else
\* raises ValueError
ParseFloat(col1) ==
    LET signed == col1 # <<>> /\ Head(col1) \in {"+", "-"}
        sign == IF signed /\ Head(col1) = "-" THEN -1 ELSE 1
        body == IF signed THEN Tail(col1) ELSE col1
        dots == {i \in 1..Len(body) : body[i] = "."}
        dot == IF dots = {} THEN Len(body) + 1 ELSE CHOOSE i \in dots : TRUE
        whole == SubSeq(body, 1, dot - 1)
        frac == SubSeq(body, dot + 1, Len(body))
    IN  IF body = <<"n", "a", "n">> THEN NaN
        ELSE IF body = <<"i", "n", "f">> THEN Inf(sign)
        ELSE IF /\ Cardinality(dots) <= 1
                /\ IsDigits(whole) /\ IsDigits(frac)
                /\ Len(whole) + Len(frac) >= 1
        THEN Number(sign * DigitsVal(whole \o frac), Pow10(Len(frac)))
        ELSE ValueError

\* the bounds taken as exclusive
InScoreRange_Strict(v) ==
    /\ v.ok /\ ~v.nan /\ v.inf = 0
    /\ MinScore * v.den < v.num
    /\ v.num < MaxScore * v.den

\* 30 <= ttl_score <= 150 (false of NaN, false of an infinity)
InScoreRange(v) ==
    /\ v.ok /\ ~v.nan /\ v.inf = 0
    /\ MinScore * v.den <= v.num
    /\ v.num <= MaxScore * v.den

\* round(ttl_score) in place of int(ttl_score)
IntOf_Round(v) == (2 * v.num + v.den) \div (2 * v.den)

\* int(ttl_score): truncation toward zero
IntOf(v) == IF v.num >= 0 THEN v.num \div v.den ELSE -((-v.num) \div v.den)

\* ------------------------------------------------------------------- config
\* the files mapping, in its insertion order; the venue aliases are
\* transliterated (Yangcheon eco, Soyang river, Hwacheon Sancheoneo,
\* Geumcheon Hannae)
files == << [filename |-> "scorecard_2025_yangcheon.csv", course_name |-> "Yangcheon"],
            [filename |-> "scorecard_2025_soyanggang.csv", course_name |-> "Soyanggang"],
            [filename |-> "scorecard_2025_sancheoneo.csv", course_name |-> "Sancheoneo"],
            [filename |-> "scorecard_2025_geumcheon.csv", course_name |-> "Geumcheon"] >>

NumFiles == Len(files)

\* 'nan', 'TTL', U+C774 U+B984 (the header "name"), 'None'
Sentinels == { <<"n", "a", "n">>, <<"T", "T", "L">>, <<"U+C774", "U+B984">>,
               <<"N", "o", "n", "e">> }

\* U+B0A0 U+C9DC U+BBF8 U+C0C1: "date unknown"
UnknownDate == <<"U+B0A0", "U+C9DC", "U+BBF8", "U+C0C1">>

\* ------------------------------------------------------------ one row
Col0(row) == Strip(Str(row.c0))
Col1(row) == Strip(Str(row.c1))

IsNameCell(col0) == col0 # <<>> /\ col0 \notin Sentinels

\* the record a score row appends
ScoreRecord(row, cur, f) ==
    [date |-> IF cur # NoneDate /\ cur # <<>> THEN cur ELSE UnknownDate,
     venue |-> files[f].course_name,
     name |-> Col0(row),
     score |-> IntOf(ParseFloat(Col1(row)))]

\* whether the loop body appends a record for the row
Appends(row) ==
    /\ ~IsDateRow(Col0(row))
    /\ IsNameCell(Col0(row))
    /\ InScoreRange(ParseFloat(Col1(row)))

\* the loop body, lines 40-69: the cursor and the records after the row
CursorAfter(row, cur) ==
    IF IsDateRow(Col0(row)) THEN DateCursor(Col0(row), cur) ELSE cur

DataAfter(row, cur, data, f) ==
    IF Appends(row) THEN Append(data, ScoreRecord(row, cur, f)) ELSE data

\* ------------------------------------------------------------ the parser
Text(s) == [na |-> FALSE, s |-> s]
Missing == [na |-> TRUE, s |-> <<>>]
Row(c0, c1) == [c0 |-> c0, c1 |-> c1]

Unvisited == [status |-> "unvisited", rows |-> <<>>]

\* line 29: the file is not on disk; the loop goes on without a word
SkipMissing ==
    /\ pc = "files" /\ fi <= NumFiles
    /\ disk' = [disk EXCEPT ![fi] = [status |-> "missing", rows |-> <<>>]]
    /\ fi' = fi + 1
    /\ UNCHANGED <<pc, current_date, all_data, warnings>>
    /\ UNCHANGED viewVars

\* the try around the whole loop: the first exception ends the parse
Warned_Abort(status) ==
    /\ warnings' = Append(warnings, files[fi].filename)
    /\ disk' = [disk EXCEPT ![fi].status = status]
    /\ fi' = NumFiles + 1
    /\ pc' = "files"
    /\ UNCHANGED <<current_date, all_data>>

\* what the except clause of lines 71-72 leaves behind: one warning naming
\* the file, and the loop goes on with the next file
Warned(status) ==
    /\ warnings' = Append(warnings, files[fi].filename)
    /\ disk' = [disk EXCEPT ![fi].status = status]
    /\ fi' = fi + 1
    /\ pc' = "files"
    /\ UNCHANGED <<current_date, all_data>>

\* line 34 raises (empty file, ragged rows, undecodable bytes)
ReadFails ==
    /\ pc = "files" /\ fi <= NumFiles
    /\ Warned("unreadable")
    /\ UNCHANGED viewVars

\* the cursor initialised once, before the loop over the files
ReadFile_KeepsCursor(ncols) ==
    /\ pc = "files" /\ fi <= NumFiles
    /\ disk' = [disk EXCEPT ![fi] = [status |-> IF ncols = 1 THEN "narrow" ELSE "read",
                                     rows |-> <<>>]]
    /\ pc' = "rows"
    /\ UNCHANGED <<fi, current_date, all_data, warnings>>
    /\ UNCHANGED viewVars

\* lines 34-36: the frame is read (it has at least one row) and the cursor
\* is unset; ncols is the frame's number of columns
ReadFile(ncols) ==
    /\ pc = "files" /\ fi <= NumFiles
    /\ disk' = [disk EXCEPT ![fi] = [status |-> IF ncols = 1 THEN "narrow" ELSE "read",
                                     rows |-> <<>>]]
    /\ current_date' = NoneDate
    /\ pc' = "rows"
    /\ UNCHANGED <<fi, all_data, warnings>>
    /\ UNCHANGED viewVars

\* line 41 on the first row of a one-column frame: row[1] raises KeyError
RowKeyError ==
    /\ pc = "rows" /\ disk[fi].status = "narrow"
    /\ Warned("keyerror")
    /\ UNCHANGED viewVars

\* lines 40-69 on the next row of the frame
ProcessRow(row) ==
    /\ pc = "rows" /\ disk[fi].status = "read"
    /\ disk' = [disk EXCEPT ![fi].rows = Append(@, row)]
    /\ current_date' = CursorAfter(row, current_date)
    /\ all_data' = DataAfter(row, current_date, all_data, fi)
    /\ UNCHANGED <<pc, fi, warnings>>
    /\ UNCHANGED viewVars

\* the frame has no more rows
EndFile ==
    /\ pc = "rows" /\ disk[fi].status = "read" /\ disk[fi].rows # <<>>
    /\ fi' = fi + 1
    /\ pc' = "files"
    /\ UNCHANGED <<disk, current_date, all_data, warnings>>
    /\ UNCHANGED viewVars

\* line 74: every file has been handled
Return ==
    /\ pc = "files" /\ fi > NumFiles
    /\ pc' = "parsed"
    /\ UNCHANGED parserVars
    /\ UNCHANGED viewVars

\* ------------------------------------------------------------ inputs
A == <<"A">>
B == <<"B">>
TTL == <<"T", "T", "L">>

CoreRows ==
    { Row(Text(<<"2", "5", "0", "5", "2", "5">>), Missing),
      Row(Text(<<"2", "0", "2", "4", "0", "1", "0", "1">>), Missing),
      Row(Text(<<"2", "5", "0", "5", "2", "5", "1">>), Missing),
      Row(Text(A), Text(<<"8", "0">>)),
      Row(Text(B), Text(<<"9", "0", ".", "5">>)) }

RowsRead == LET n[f \in 0..NumFiles] ==
                    IF f = 0 THEN 0 ELSE n[f - 1] + Len(disk[f].rows)
            IN  n[NumFiles]

Init ==
    /\ pc = "files"
    /\ fi = 1
    /\ disk = [f \in 1..NumFiles |-> Unvisited]
    /\ current_date = NoneDate
    /\ all_data = <<>>
    /\ warnings = <<>>
    /\ df = <<>>
    /\ selected_player = <<>>
    /\ selected_course = {}
    /\ filtered_df = <<>>
    /\ recent_score = 0

Next ==
    \/ SkipMissing
    \/ ReadFails
    \/ \E ncols \in 1..2 : (ncols = 2 => RowsRead < MaxRows) /\ ReadFile(ncols)
    \/ RowKeyError
    \/ RowsRead < MaxRows /\ \E row \in CoreRows : ProcessRow(row)
    \/ EndFile
    \/ Return

Spec == Init /\ [][Next]_vars

\* ------------------------------------------- one row, over many cells
\* texts of length at most n over the alphabet cs
RECURSIVE TextsUpTo(_, _)
TextsUpTo(cs, n) ==
    IF n = 0 THEN {<<>>}
    ELSE LET shorter == TextsUpTo(cs, n - 1)
         IN  shorter \cup {<<c>> \o s : c \in cs, s \in {x \in shorter : Len(x) = n - 1}}

Seps == {<<>>, <<".">>, <<"/">>, <<"|">>}
Years == {<<"2", "4">>, <<"2", "4", "3">>, <<"2", "0", "2", "4">>}

\* first cells that begin with digit groups: year, month 06, day 17, with
\* any separators and up to MaxTail further characters
DateLikeCells ==
    { y \o s1 \o <<"0", "6">> \o s2 \o <<"1", "7">> \o tail :
        y \in Years, s1 \in Seps, s2 \in Seps, tail \in TextsUpTo({"7", "a"}, MaxTail) }

OtherCells ==
    { <<>>, <<" ">>, <<" ", " ">>, A, B, TTL, <<" ", "T", "T", "L", " ">>,
      <<"U+C774", "U+B984">>, <<"n", "a", "n">>, <<"N", "o", "n", "e">>,
      <<"t", "t", "l">>, <<"7", "A">>, <<"1", "2", "3", "4", "5">>,
      <<"1", ".", "5">>, <<".", "2", "4", "0", "6", "1", "7">>,
      <<"2", "4", ".", ".", "0", "6", ".", "1", "7">>,
      <<" ", "2", "4", "0", "6", "1", "7", " ">>,
      <<"2", "4", "-", "0", "6", "-", "1", "7">> }

FirstCells == {Missing} \cup {Text(s) : s \in DateLikeCells \cup OtherCells}

SecondCells ==
    {Missing} \cup
    { Text(s) : s \in
        { <<>>, <<"a", "b", "c">>, <<"n", "a", "n">>, <<"i", "n", "f">>,
          <<"0">>, <<"-", "8", "0">>, <<"8", "0">>, <<" ", "8", "0", " ">>,
          <<"2", "9">>, <<"2", "9", ".", "9">>, <<"3", "0">>, <<"3", "0", ".", "0">>,
          <<"3", "0", ".", "5">>, <<"1", "4", "9", ".", "9">>, <<"1", "5", "0">>,
          <<"1", "5", "0", ".", "0">>, <<"1", "5", "0", ".", "5">>,
          <<"1", "5", "1">>, <<"8", "0", ".", "2", "5">>, <<"8", ".", "0", ".", "1">> } }

RichRows == {Row(c0, c1) : c0 \in FirstCells, c1 \in SecondCells}

\* the rows a file may open with before the row looked at: a header row,
\* or a date row
OpeningRows ==
    { Row(Text(<<"U+C774", "U+B984">>), Text(TTL)),
      Row(Text(<<"2", "0", "2", "3", "1", "2", "3", "1">>), Missing) }

\* the parser inside file f, having read one opening row
InitRow ==
    /\ pc = "rows"
    /\ \E f \in 1..NumFiles : \E first \in OpeningRows :
        /\ fi = f
        /\ disk = [g \in 1..NumFiles |->
                     IF g < f THEN [status |-> "missing", rows |-> <<>>]
                     ELSE IF g = f THEN [status |-> "read", rows |-> <<first>>]
                     ELSE Unvisited]
        /\ current_date = CursorAfter(first, NoneDate)
    /\ all_data = <<>>
    /\ warnings = <<>>
    /\ df = <<>>
    /\ selected_player = <<>>
    /\ selected_course = {}
    /\ filtered_df = <<>>
    /\ recent_score = 0

NextRow == Len(disk[fi].rows) = 1 /\ \E row \in RichRows : ProcessRow(row)

SpecRow == InitRow /\ [][NextRow]_vars

\* ------------------------------------------------------ the dashboard
NaT == -1

IsLeap(y) == (y % 4 = 0 /\ y % 100 # 0) \/ y % 400 = 0

DaysIn(y, m) == IF m = 2 THEN (IF IsLeap(y) THEN 29 ELSE 28)
                ELSE IF m \in {4, 6, 9, 11} THEN 30 ELSE 31

\* pd.to_datetime(text, errors='coerce') on the texts the parser stores: a
\* calendar date YYYY-MM-DD within the range of a nanosecond timestamp, as
\* the number YYYYMMDD; NaT for everything else
ToDatetime(s) ==
    IF /\ Len(s) = 10
       /\ \A i \in {1, 2, 3, 4, 6, 7, 9, 10} : s[i] \in Digits
       /\ s[5] = "-" /\ s[8] = "-"
    THEN LET y == DigitsVal(SubSeq(s, 1, 4))
             m == DigitsVal(SubSeq(s, 6, 7))
             d == DigitsVal(SubSeq(s, 9, 10))
             n == y * 10000 + m * 100 + d
         IN  IF /\ m \in 1..12 /\ d \in 1..DaysIn(y, m)
                /\ n >= 16770922 /\ n <= 22620411
             THEN n ELSE NaT
    ELSE NaT

\* line 87: the date column converted
Converted(data) == [i \in 1..Len(data) |-> [data[i] EXCEPT !.date = ToDatetime(@)]]

\* line 88, sort_values on the date column: ascending, NaT rows last in the
\* order they had; the default sort is not stable, so rows of one date come
\* in any order
SortValues(t) ==
    { [i \in 1..Len(t) |-> t[p[i]]] : p \in
        { q \in Permutations(1..Len(t)) :
            \A i, j \in 1..Len(t) : i < j =>
                \/ t[q[i]].date # NaT /\ t[q[j]].date # NaT /\ t[q[i]].date <= t[q[j]].date
                \/ t[q[i]].date # NaT /\ t[q[j]].date = NaT
                \/ t[q[i]].date = NaT /\ t[q[j]].date = NaT /\ q[i] < q[j] } }

\* Series.unique(): the values in the order they first appear
RECURSIVE Unique(_)
Unique(s) ==
    IF s = <<>> THEN <<>>
    ELSE LET init == Unique(SubSeq(s, 1, Len(s) - 1))
             last == s[Len(s)]
         IN  IF \E i \in 1..Len(init) : init[i] = last THEN init ELSE Append(init, last)

Column(t, col) == [i \in 1..Len(t) |-> t[i][col]]

\* U+C804 U+CCB4 U+BCF4 U+AE30: "show all"
ShowAll == <<"U+C804", "U+CCB4", "U+BCF4", "U+AE30">>

\* line 95: the options of the player selector
PlayerOptions(t) == <<ShowAll>> \o Unique(Column(t, "name"))

\* line 95: the selector opens on the option at index 1
DefaultPlayer(t) == PlayerOptions(t)[DefaultIndex + 1]

\* line 98: every venue of the table is selected by default
DefaultCourses(t) == {t[i].venue : i \in 1..Len(t)}

\* df[df[venue].isin(S)]
RECURSIVE IsinCourse(_, _)
IsinCourse(t, S) ==
    IF t = <<>> THEN <<>>
    ELSE (IF Head(t).venue \in S THEN <<Head(t)>> ELSE <<>>) \o IsinCourse(Tail(t), S)

\* df[df[name] == p]
RECURSIVE NameIs(_, _)
NameIs(t, p) ==
    IF t = <<>> THEN <<>>
    ELSE (IF Head(t).name = p THEN <<Head(t)>> ELSE <<>>) \o NameIs(Tail(t), p)

\* the player filter applied to df, the venue filter's result dropped
FilteredView_PlayerOnly(t, S, p) ==
    IF p # ShowAll THEN NameIs(t, p) ELSE IsinCourse(t, S)

\* lines 101-103: the venue filter, then the player filter on its result
\* unless "show all" is selected
FilteredView(t, S, p) ==
    IF p # ShowAll THEN NameIs(IsinCourse(t, S), p) ELSE IsinCourse(t, S)

\* line 118: the score of the last row of the view, 0 for an empty view
RecentScore(view) == IF view # <<>> THEN view[Len(view)].score ELSE 0

\* one run of lines 83-119 with the sorted table t and the widgets at p, S
Script(t, p, S) ==
    /\ df' = t
    /\ selected_player' = p
    /\ selected_course' = S
    /\ LET view == FilteredView(t, S, p)
       IN  filtered_df' = view /\ recent_score' = RecentScore(view)
    /\ pc' = "done"
    /\ UNCHANGED parserVars

\* line 84: nothing was parsed, the error is shown and nothing else
ShowError ==
    /\ pc = "parsed" /\ all_data = <<>>
    /\ pc' = "stopped"
    /\ UNCHANGED parserVars
    /\ UNCHANGED viewVars

\* the first run of the script, t what sort_values gave: the widgets hold
\* nothing yet and open on their defaults
FirstRun(t) ==
    /\ pc = "parsed" /\ all_data # <<>> /\ selected_player = <<>>
    /\ Script(t, DefaultPlayer(t), DefaultCourses(t))

\* a later run of the script: the widgets keep what the user set
Rerun(t) ==
    /\ pc = "parsed" /\ all_data # <<>> /\ selected_player # <<>>
    /\ Script(t, selected_player, selected_course)

\* the user sets the widgets to p, S: the script starts again from its first
\* line, and parse_score_files gives the same records from the same files
Interact(p, S) ==
    /\ pc = "done"
    /\ selected_player' = p
    /\ selected_course' = S
    /\ df' = <<>>
    /\ filtered_df' = <<>>
    /\ recent_score' = 0
    /\ pc' = "parsed"
    /\ UNCHANGED parserVars

\* ------------------------------------------------- inputs of the dashboard
RECURSIVE IntText(_)
IntText(n) ==
    IF n < 10 THEN <<CHOOSE c \in Digits : DigitVal(c) = n>>
    ELSE IntText(n \div 10) \o <<CHOOSE c \in Digits : DigitVal(c) = n % 10>>

Day1 == <<"2", "0", "2", "4", "-", "0", "1", "-", "0", "1">>
Day2 == <<"2", "0", "2", "5", "-", "0", "5", "-", "2", "5">>

\* records the parser can give: two players, the first and the last venue,
\* two days or no date; the score follows the date
ViewRecords ==
    { [date |-> d, venue |-> files[f].course_name, name |-> n,
       score |-> IF d = Day1 THEN 80 ELSE IF d = Day2 THEN 85 ELSE 90] :
        d \in {Day1, Day2, UnknownDate}, f \in {1, NumFiles}, n \in {A, B} }

FileOf(venue) == CHOOSE f \in 1..NumFiles : files[f].course_name = venue

RECURSIVE TablesUpTo(_)
TablesUpTo(n) ==
    IF n = 0 THEN {<<>>}
    ELSE LET shorter == TablesUpTo(n - 1)
         IN  shorter \cup
             { Append(t, r) : t \in {x \in shorter : Len(x) = n - 1},
                              r \in ViewRecords }

\* the records come file by file, and within a file no record is undated
\* after a dated one
ViewTables ==
    { t \in TablesUpTo(MaxRecords) :
        \A i, j \in 1..Len(t) : i < j =>
            /\ FileOf(t[i].venue) <= FileOf(t[j].venue)
            /\ (t[i].venue = t[j].venue /\ t[j].date = UnknownDate)
                    => t[i].date = UnknownDate }

\* rows that give a record: a date row when it has a date, then its score row
RowsFor(r) ==
    (IF r.date = UnknownDate THEN <<>>
     ELSE <<Row(Text(Replace(r.date, "-")), Missing)>>)
    \o <<Row(Text(r.name), Text(IntText(r.score)))>>

RECURSIVE FileRows(_, _)
FileRows(t, f) ==
    IF t = <<>> THEN <<>>
    ELSE (IF FileOf(Head(t).venue) = f THEN RowsFor(Head(t)) ELSE <<>>)
         \o FileRows(Tail(t), f)

\* the script after a parse that gave the table t
InitView ==
    /\ pc = "parsed"
    /\ fi = NumFiles + 1
    /\ \E t \in ViewTables :
        /\ all_data = t
        /\ disk = [f \in 1..NumFiles |->
                     IF FileRows(t, f) = <<>> THEN [status |-> "missing", rows |-> <<>>]
                     ELSE [status |-> "read", rows |-> FileRows(t, f)]]
    /\ current_date = NoneDate
    /\ warnings = <<>>
    /\ df = <<>>
    /\ selected_player = <<>>
    /\ selected_course = {}
    /\ filtered_df = <<>>
    /\ recent_score = 0

NextView ==
    \/ ShowError
    \/ pc = "parsed" /\ \E t \in SortValues(Converted(all_data)) : FirstRun(t)
    \/ pc = "parsed" /\ \E t \in SortValues(Converted(all_data)) : Rerun(t)
    \/ pc = "done" /\ \E i \in 1..Len(PlayerOptions(df)) :
                        \E S \in SUBSET DefaultCourses(df) :
                            Interact(PlayerOptions(df)[i], S)

SpecView == InitView /\ [][NextView]_vars

\* ===================================================== claims on one row
\* the step reads one more row of the file being read
ReadsRow == pc = "rows" /\ pc' = "rows" /\ Len(disk'[fi].rows) = Len(disk[fi].rows) + 1
NewRow == disk'[fi].rows[Len(disk'[fi].rows)]
AppendsOne == Len(all_data') = Len(all_data) + 1
                /\ SubSeq(all_data', 1, Len(all_data)) = all_data
NewRecord == all_data'[Len(all_data')]

\* the last row read of the file being read, in a state
HasRead == pc = "rows" /\ Len(disk[fi].rows) >= 2
LastRow == disk[fi].rows[Len(disk[fi].rows)]

IsDigitChar(c) == c \in Digits
DigitsOf(s) == SelectSeq(s, IsDigitChar)

\* the shape of a text: d for a digit, s for one of . | /, x for the rest
ShapeOf(s) == [i \in 1..Len(s) |->
                 IF s[i] \in Digits THEN "d"
                 ELSE IF s[i] \in {".", "|", "/"} THEN "s" ELSE "x"]

RECURSIVE Repeat(_, _)
Repeat(c, n) == IF n = 0 THEN <<>> ELSE <<c>> \o Repeat(c, n - 1)

\* the shapes the date pattern accepts: 2-4 digits, 2 digits, 2 digits, each
\* pair of groups with or without one separator between
DateShapes ==
    { Repeat("d", n) \o s1 \o <<"d", "d">> \o s2 \o <<"d", "d">> :
        n \in 2..4, s1 \in {<<>>, <<"s">>}, s2 \in {<<>>, <<"s">>} }

BeginsLikeDate(c0) ==
    \E sh \in DateShapes :
        Len(sh) <= Len(c0) /\ SubSeq(ShapeOf(c0), 1, Len(sh)) = sh

NameAndScoreOk(row) ==
    /\ Col0(row) # <<>>
    /\ Col0(row) \notin { <<"n", "a", "n">>, TTL, <<"U+C774", "U+B984">>,
                          <<"N", "o", "n", "e">> }
    /\ LET v == ParseFloat(Col1(row))
       IN  ~v.nan /\ v.inf = 0 /\ 30 * v.den <= v.num /\ v.num <= 150 * v.den

\* C1 as stated: for every row whose second cell parses to a number v, a
\* record is appended if and only if 30 <= v <= 150 and the first cell is
\* non-empty and not a sentinel token, whatever the first cell is.
C1_AnyFirstCell ==
    [][ReadsRow /\ ParseFloat(Col1(NewRow)).ok
          => (AppendsOne <=> NameAndScoreOk(NewRow))
             /\ (~AppendsOne => all_data' = all_data)]_vars

\* C1 amended: for every row whose second cell parses to a number v, a record
\* is appended if and only if 30 <= v <= 150, the first cell is non-empty and
\* not a sentinel token, and the first cell is not taken as a date row (it
\* does not begin with 2-4 digits, 2 digits, 2 digits with optional single
\* separators from . | / between the groups).
C1_NotDateRow ==
    [][ReadsRow /\ ParseFloat(Col1(NewRow)).ok
          => (AppendsOne <=> (NameAndScoreOk(NewRow) /\ ~BeginsLikeDate(Col0(NewRow))))
             /\ (~AppendsOne => all_data' = all_data)]_vars

\* a first cell that begins with digits and is no date row gave a record
C1_Witness ==
    /\ HasRead
    /\ Col0(LastRow) = <<"1", "2", "3", "4", "5">>
    /\ Col1(LastRow) = <<"3", "0">>
    /\ Len(all_data) = 1
    /\ all_data[1].name = <<"1", "2", "3", "4", "5">>

\* the whole first cell is three digit groups, the first of n digits, with
\* or without one '.' or '/' between the groups
IsPlainDate(c0, n) ==
    /\ Len(DigitsOf(c0)) = n + 4
    /\ \E s1 \in {<<>>, <<".">>, <<"/">>} : \E s2 \in {<<>>, <<".">>, <<"/">>} :
          c0 = SubSeq(DigitsOf(c0), 1, n) \o s1 \o SubSeq(DigitsOf(c0), n + 1, n + 2)
               \o s2 \o SubSeq(DigitsOf(c0), n + 3, n + 4)

\* C3: a first cell of six digits YYMMDD sets the cursor to 20YY-MM-DD and
\* one of eight digits YYYYMMDD sets it to YYYY-MM-DD, with or without '.'
\* or '/' between the three digit groups.
C3_DateConversion ==
    HasRead =>
        LET c0 == Col0(LastRow)
            ds == DigitsOf(c0)
        IN  /\ IsPlainDate(c0, 2) =>
                current_date = <<"2", "0", ds[1], ds[2], "-", ds[3], ds[4], "-", ds[5], ds[6]>>
            /\ IsPlainDate(c0, 4) =>
                current_date = <<ds[1], ds[2], ds[3], ds[4], "-", ds[5], ds[6], "-", ds[7], ds[8]>>

C3_Witness ==
    /\ HasRead
    /\ Col0(LastRow) = <<"2", "4", ".", "0", "6", "/", "1", "7">>
    /\ current_date = <<"2", "0", "2", "4", "-", "0", "6", "-", "1", "7">>

\* C4: every record has an integer total score within [30,150], equal to the
\* second cell's value truncated toward zero; a row whose value lies outside
\* [30,150] appends nothing.
C4_ScoreBound ==
    /\ [](\A i \in 1..Len(all_data) :
            all_data[i].score \in Int /\ 30 <= all_data[i].score /\ all_data[i].score <= 150)
    /\ [][ReadsRow =>
            LET v == ParseFloat(Col1(NewRow))
            IN  /\ AppendsOne =>
                    /\ v.ok /\ v.num >= 0
                    /\ NewRecord.score * v.den <= v.num
                    /\ v.num < (NewRecord.score + 1) * v.den
                /\ (~v.ok \/ v.nan \/ v.inf # 0 \/ v.num < 30 * v.den \/ v.num > 150 * v.den)
                        => all_data' = all_data]_vars

\* a fractional score within the bounds was truncated
C4_Witness ==
    /\ HasRead
    /\ Col1(LastRow) = <<"1", "4", "9", ".", "9">>
    /\ Len(all_data) = 1
    /\ all_data[1].score = 149

IsBlank(cell) == cell.na \/ \A i \in 1..Len(cell.s) : cell.s[i] = " "

\* C5: a row whose first cell is 'TTL', the name header or empty (missing or
\* whitespace only) never produces a record, whatever its second cell, and
\* leaves the date cursor unchanged.
C5_HeaderRows ==
    [][ReadsRow /\ (\/ IsBlank(NewRow.c0)
                    \/ (~NewRow.c0.na /\ NewRow.c0.s \in {TTL, <<"U+C774", "U+B984">>}))
          => all_data' = all_data /\ current_date' = current_date]_vars

\* a whitespace-only first cell beside a valid score, after a date row
C5_Witness ==
    /\ HasRead
    /\ LastRow = Row(Text(<<" ", " ">>), Text(<<"8", "0">>))
    /\ all_data = <<>>
    /\ current_date = <<"2", "0", "2", "3", "-", "1", "2", "-", "3", "1">>

IsDateText(s) ==
    /\ Len(s) = 10
    /\ \A i \in {1, 2, 3, 4, 6, 7, 9, 10} : s[i] \in Digits
    /\ s[5] = "-" /\ s[8] = "-"

\* C10: the date cursor is unset or a text of the shape DDDD-DD-DD, and so
\* every record's date is the unknown sentinel or such a text; a cell that
\* matches the pattern but strips to a length other than 6 or 8 leaves the
\* cursor as it was.
C10_WellFormedDate ==
    /\ [](current_date = NoneDate \/ IsDateText(current_date))
    /\ [](\A i \in 1..Len(all_data) :
            all_data[i].date = UnknownDate \/ IsDateText(all_data[i].date))
    /\ [][ReadsRow /\ BeginsLikeDate(Col0(NewRow))
              /\ Len(RawDate(Col0(NewRow))) \notin {6, 8}
            => current_date' = current_date]_vars

\* ================================================ claims on a whole parse
\* a row that sets the cursor: a date row whose stripped text has six or
\* eight characters
SetsDate(row) == IsDateRow(Col0(row)) /\ Len(RawDate(Col0(row))) \in {6, 8}

\* the date a record read after rows must carry: that of the latest row of
\* rows that sets one, the unknown sentinel if there is none
DateFor(rows) ==
    LET setters == {j \in 1..Len(rows) : SetsDate(rows[j])}
    IN  IF setters = {} THEN UnknownDate
        ELSE LET last == CHOOSE j \in setters : \A k \in setters : k <= j
             IN  DateCursor(Col0(rows[last]), NoneDate)

\* C2: every record carries the date set by the most recent date row before
\* it in the same file, and the unknown sentinel if none precedes it in that
\* file: a date set in an earlier file never reaches a later file's record.
C2_DatePropagation ==
    [][ReadsRow /\ AppendsOne => NewRecord.date = DateFor(disk[fi].rows)]_vars

\* a file that set a date, and a later file's record that has none
C2_Witness ==
    /\ \E j \in 1..Len(disk[1].rows) : SetsDate(disk[1].rows[j])
    /\ \E i \in 1..Len(all_data) :
          all_data[i].venue = "Soyanggang" /\ all_data[i].date = UnknownDate

\* the records the rows of one file give
RECURSIVE RecordsOf(_, _, _)
RecordsOf(rows, cur, f) ==
    IF rows = <<>> THEN <<>>
    ELSE (IF Appends(Head(rows)) THEN <<ScoreRecord(Head(rows), cur, f)>> ELSE <<>>)
         \o RecordsOf(Tail(rows), CursorAfter(Head(rows), cur), f)

RECURSIVE ExpectedData(_)
ExpectedData(f) ==
    IF f = 0 THEN <<>>
    ELSE ExpectedData(f - 1)
         \o (IF disk[f].status = "read" THEN RecordsOf(disk[f].rows, NoneDate, f) ELSE <<>>)

RECURSIVE ExpectedWarnings(_)
ExpectedWarnings(f) ==
    IF f = 0 THEN <<>>
    ELSE ExpectedWarnings(f - 1)
         \o (IF disk[f].status \in {"unreadable", "keyerror"}
             THEN <<files[f].filename>> ELSE <<>>)

\* C7: a missing file is skipped with no warning; a file whose read or row
\* processing raises gives one warning naming it and no records; the files
\* after it are still handled and the records of the files before it kept.
C7_FailureIsolation ==
    /\ warnings = ExpectedWarnings(NumFiles)
    /\ pc = "parsed" =>
          /\ \A f \in 1..NumFiles :
                disk[f].status \in {"missing", "unreadable", "keyerror", "read"}
          /\ all_data = ExpectedData(NumFiles)

\* records before and after a file that raised
C7_Witness ==
    /\ pc = "parsed"
    /\ disk[1].status = "read" /\ disk[2].status = "unreadable"
    /\ disk[3].status = "missing" /\ disk[4].status = "read"
    /\ Len(warnings) = 1
    /\ \E i, j \in 1..Len(all_data) :
          all_data[i].venue = "Yangcheon" /\ all_data[j].venue = "Geumcheon"

\* ================================================ claims on the dashboard
Count(t, n) == Cardinality({i \in 1..Len(t) : t[i].name = n})

\* the name with the most records of t, the first to occur among equals
TopPlayer(t) ==
    LET first == CHOOSE i \in 1..Len(t) :
                    /\ \A j \in 1..Len(t) : Count(t, t[j].name) <= Count(t, t[i].name)
                    /\ \A j \in 1..(i - 1) : Count(t, t[j].name) < Count(t, t[i].name)
    IN  t[first].name

\* C6: the player selected by default is the name with the highest count of
\* records in the unfiltered table, ties broken by first occurrence.
C6_DefaultIsTopPlayer ==
    [][pc = "parsed" /\ selected_player = <<>> /\ pc' = "done"
          => selected_player' = TopPlayer(df')]_vars

\* the indices of the latest-dated records of a view
LatestDated(view) ==
    {i \in 1..Len(view) :
        /\ view[i].date # NaT
        /\ \A j \in 1..Len(view) : view[j].date # NaT => view[j].date <= view[i].date}

\* C8: the recent score is the total score of the latest-dated record of the
\* filtered view, and 0 for an empty view, also when the view holds records
\* of unknown date beside dated ones.
C8_RecentIsLatest ==
    pc = "done" =>
        IF filtered_df = <<>> THEN recent_score = 0
        ELSE IF LatestDated(filtered_df) # {}
        THEN \E i \in LatestDated(filtered_df) : recent_score = filtered_df[i].score
        ELSE \E i \in 1..Len(filtered_df) : recent_score = filtered_df[i].score

\* the player filter as the script applies it: none under "show all"
PlayerFilter(t, p) == IF p # ShowAll THEN NameIs(t, p) ELSE t

\* C9: the venue filter and the player filter give the same view in either
\* order, each applied twice gives what it gives once, and the unfiltered
\* table is what the sort gave, whatever was filtered.
C9_FilterAlgebra ==
    [][pc = "parsed" /\ pc' = "done" =>
          LET t == df'
              S == selected_course'
              p == selected_player'
          IN  /\ t \in SortValues(Converted(all_data))
              /\ filtered_df' = PlayerFilter(IsinCourse(t, S), p)
              /\ filtered_df' = IsinCourse(PlayerFilter(t, p), S)
              /\ IsinCourse(filtered_df', S) = filtered_df'
              /\ PlayerFilter(filtered_df', p) = filtered_df'
              /\ IsinCourse(IsinCourse(t, S), S) = IsinCourse(t, S)
              /\ PlayerFilter(PlayerFilter(t, p), p) = PlayerFilter(t, p)]_vars

\* a view that lost one record to the venue filter and one to the player
\* filter
C9_Witness ==
    /\ pc = "done"
    /\ selected_player = A
    /\ selected_course = {"Yangcheon"}
    /\ Len(df) = 3 /\ Len(filtered_df) = 1
    /\ \E i, j \in 1..Len(df) :
          /\ df[i].name = B /\ df[i].venue = "Yangcheon"
          /\ df[j].name = A /\ df[j].venue = "Geumcheon"

====
